---------------------------- MODULE Spec2Model ----------------------------
(***************************************************************************)
(* A model of src/com_sniffer.py: the serial reader thread                 *)
(* (SerialReaderThread: marker resolver, frame extractor, per-port log,    *)
(* stop) and the coordinator (ComSniffer: start/stop monitoring, pending   *)
(* queues, aggregate log).                                                 *)
(*                                                                         *)
(* Bytes are the integers 0..255, a byte string is a sequence of bytes, a  *)
(* text (str) is a sequence of ASCII character codes.  The reader's run()  *)
(* is split into steps at every access to a field that stop() also touches *)
(* (is_running, buffer, last_timestamp, log_file, the signals), because    *)
(* stop() is executed by the coordinator's thread while run() executes in  *)
(* the reader's own thread.                                                *)
(***************************************************************************)
EXTENDS Integers, Sequences, FiniteSets, TLC

(***************************************************************************)
(* Bounds of the model.                                                    *)
(***************************************************************************)
\* Longest chunk of Chunks(alphabet); the chunks written out in the
\* configurations are longer.
MaxChunkLen == 2
\* Number of distinct wall-clock readings.
MaxTime == 2
\* Stands for max_buffer_size (1024 * 1024 at line 158), scaled so that the
\* cap is reached; the smallest value that holds the 7-byte scenario chunk.
max_buffer_size == 7

(***************************************************************************)
(* Sequences.                                                              *)
(***************************************************************************)
Min(a, b) == IF a <= b THEN a ELSE b

Max(a, b) == IF a >= b THEN a ELSE b

\* s[i:] of Python for a 0-based offset i >= 0.
From(s, i) == SubSeq(s, i + 1, Len(s))

\* s[:i] of Python for 0 <= i.
Upto(s, i) == SubSeq(s, 1, Min(i, Len(s)))

\* s[-n:] of Python for n >= 1.
Last(s, n) == SubSeq(s, Max(Len(s) - n, 0) + 1, Len(s))

\* Whether m occurs in s at 0-based offset i.
OccursAt(s, m, i) == /\ i + Len(m) <= Len(s)
                     /\ SubSeq(s, i + 1, i + Len(m)) = m

\* bytes.find(m, from): the lowest 0-based offset >= from where m occurs in
\* s, -1 when there is none.
Find(s, m, from) ==
  LET hits == {i \in from..(Len(s) - Len(m)) : OccursAt(s, m, i)}
  IN  IF hits = {} THEN -1 ELSE CHOOSE i \in hits : \A j \in hits : i <= j

\* m in s, for byte strings.
Contains(s, m) == Find(s, m, 0) # -1

RECURSIVE Concat(_)
Concat(ss) == IF ss = <<>> THEN <<>> ELSE Head(ss) \o Concat(Tail(ss))

IsSuffix(t, s) == t = <<>> \/ (Len(t) <= Len(s) /\ Last(s, Len(t)) = t)

IsPrefix(t, s) == Len(t) <= Len(s) /\ SubSeq(s, 1, Len(t)) = t

\* All sequences over S of length 0..n.
SeqsUpTo(S, n) == UNION {[1..k -> S] : k \in 0..n}

(***************************************************************************)
(* Texts: the marker specifications the user types.                        *)
(***************************************************************************)
T_empty == <<>>
T_STX == <<83, 84, 88>>  \* "STX"
T_ETX == <<69, 84, 88>>  \* "ETX"
T_etx == <<101, 116, 120>>  \* "etx"
T_0x02 == <<48, 120, 48, 50>>  \* "0x02"
T_0x03 == <<48, 120, 48, 51>>  \* "0x03"
T_0x41 == <<48, 120, 52, 49>>  \* "0x41"
T_65 == <<54, 53>>  \* "65"
T_Q == <<81>>  \* "Q"
T_AB == <<65, 66>>  \* "AB"
T_0xZZ == <<48, 120, 90, 90>>  \* "0xZZ"
T_0x100 == <<48, 120, 49, 48, 48>>  \* "0x100"
T_300 == <<51, 48, 48>>  \* "300"
T_sp3 == <<32, 51, 32>>  \* " 3 "

IsSpace(c) == c \in {32, 9, 10, 11, 12, 13}

RECURSIVE LStrip(_)
LStrip(t) == IF t # <<>> /\ IsSpace(Head(t)) THEN LStrip(Tail(t)) ELSE t

RECURSIVE RStrip(_)
RStrip(t) == IF t # <<>> /\ IsSpace(t[Len(t)])
             THEN RStrip(SubSeq(t, 1, Len(t) - 1)) ELSE t

\* str.strip()
Strip(t) == RStrip(LStrip(t))

\* str.upper() and str.lower() on ASCII.
Upper(t) == [i \in 1..Len(t) |-> IF t[i] \in 97..122 THEN t[i] - 32 ELSE t[i]]

Lower(t) == [i \in 1..Len(t) |-> IF t[i] \in 65..90 THEN t[i] + 32 ELSE t[i]]

\* str.isdigit() on ASCII: non-empty and decimal digits only.
IsDigit(t) == t # <<>> /\ \A i \in 1..Len(t) : t[i] \in 48..57

\* The value of an upper-case hexadecimal digit, -1 for any other character.
HexVal(c) == IF c \in 48..57 THEN c - 48
             ELSE IF c \in 65..70 THEN c - 55 ELSE -1

RECURSIVE DigitsValue(_, _)
DigitsValue(t, base) ==
  IF t = <<>> THEN 0
  ELSE DigitsValue(SubSeq(t, 1, Len(t) - 1), base) * base + HexVal(t[Len(t)])

\* int(t, 16) for an upper-cased text that starts with "0X": the value, or
\* -1 where Python raises ValueError (no digit, or a character that is no
\* hexadecimal digit).
IntHex(t) ==
  LET d == From(t, 2)
  IN  IF d # <<>> /\ \A i \in 1..Len(d) : HexVal(d[i]) >= 0
      THEN DigitsValue(d, 16) ELSE -1

\* The result of _parse_marker when bytes([v]) raises ValueError outside the
\* try block: the exception leaves _parse_marker.
ValueError == <<-1>>

\* str.encode('utf-8') on ASCII text.
Encode(t) == t

\* _parse_marker(marker_str)
ParseMarker(marker_str) ==
  IF marker_str = <<>> THEN <<>>
  ELSE LET marker_upper == Upper(Strip(marker_str))
       IN  IF marker_upper = T_STX THEN <<2>>
           ELSE IF marker_upper = T_ETX THEN <<3>>
           ELSE IF IsPrefix(<<48, 120>>, Lower(marker_upper))
                THEN LET v == IntHex(marker_upper)
                     IN  IF v \in 0..255 THEN <<v>> ELSE Encode(marker_str)
           ELSE IF IsDigit(marker_upper)
                THEN LET v == DigitsValue(marker_upper, 10)
                     IN  IF v \in 0..255 THEN <<v>> ELSE ValueError
           ELSE Encode(marker_str)

(***************************************************************************)
(* Rendering of a packet.                                                  *)
(***************************************************************************)
HexDigits == <<"0", "1", "2", "3", "4", "5", "6", "7",
               "8", "9", "A", "B", "C", "D", "E", "F">>

\* f'{b:02X}'
Hex2(b) == HexDigits[(b \div 16) + 1] \o HexDigits[(b % 16) + 1]

\* ' '.join(f'{b:02X}' for b in packet): the sequence of the joined items.
HexData(packet) == [i \in 1..Len(packet) |-> Hex2(packet[i])]

\* format_packet_display(hex_data, packet_bytes)
FormatPacketDisplay(hex_data, packet_bytes) == hex_data

\* f"[{timestamp}] {source_label} {formatted_display}\n"
Message(timestamp, source_label, display) ==
  [ts |-> timestamp, label |-> source_label, hex |-> display]


\* len(message.encode('utf-8')): "[HH:MM:SS.mmm] " is 15 characters ("[None] "
\* is 7 when last_timestamp is None), the label, a space, the items joined by
\* single spaces, and the line feed.
MsgLen(m) ==
  (IF m.ts = 0 THEN 7 ELSE 15) + Len(m.label) + 1
  + (IF m.hex = <<>> THEN 0 ELSE 3 * Len(m.hex) - 1) + 1

(***************************************************************************)
(* The frame extractor: one iteration of each framing loop of run().       *)
(* A result is [emit, packet, buffer]: whether a packet is split off, the  *)
(* packet, and the buffer as the iteration leaves it.  Each step is        *)
(* preceded by a variant with a plausible fault, which no action uses.     *)
(***************************************************************************)
\* Variant: the cap keeps the oldest bytes.
CapKeepOldest(buffer) == Upto(buffer, max_buffer_size)

\* Lines 202-204: the size cap.
CapBuffer(buffer) ==
  IF Len(buffer) > max_buffer_size THEN Last(buffer, max_buffer_size)
  ELSE buffer

\* Variant: nothing is dropped.
SeekStartKeepOrphans(buffer, start_byte) ==
  [found |-> Find(buffer, start_byte, 0) # -1, buffer |-> buffer]

\* Variant: the start marker found is consumed with what precedes it.
SeekStartConsume(buffer, start_byte) ==
  LET start_index == Find(buffer, start_byte, 0)
  IN  IF start_index = -1 THEN [found |-> FALSE, buffer |-> <<>>]
      ELSE [found |-> TRUE,
            buffer |-> From(buffer, start_index + Len(start_byte))]

\* Lines 212-217: locate the start marker, drop what precedes it.
SeekStart(buffer, start_byte) ==
  LET start_index == Find(buffer, start_byte, 0)
  IN  IF start_index = -1 THEN [found |-> FALSE, buffer |-> <<>>]
      ELSE IF start_index > 0
           THEN [found |-> TRUE, buffer |-> From(buffer, start_index)]
           ELSE [found |-> TRUE, buffer |-> buffer]

\* Variant: the end marker is searched from the start of the buffer.
SplitFrameFromZero(buffer, start_byte, end_byte) ==
  LET end_index == Find(buffer, end_byte, 0)
  IN  IF end_index = -1
      THEN [emit |-> FALSE, packet |-> <<>>, buffer |-> buffer]
      ELSE [emit |-> TRUE,
            packet |-> Upto(buffer, end_index + Len(end_byte)),
            buffer |-> From(buffer, end_index + Len(end_byte))]

\* Lines 218-223: the end marker after the start marker's bytes.
SplitFrame(buffer, start_byte, end_byte) ==
  LET end_index == Find(buffer, end_byte, Len(start_byte))
  IN  IF end_index = -1
      THEN [emit |-> FALSE, packet |-> <<>>, buffer |-> buffer]
      ELSE [emit |-> TRUE,
            packet |-> Upto(buffer, end_index + Len(end_byte)),
            buffer |-> From(buffer, end_index + Len(end_byte))]

\* Variant: the packet is copied and stays in the buffer.
SplitAtEndKeepBuffer(buffer, end_byte) ==
  LET i == Find(buffer, end_byte, 0)
  IN  IF i = -1 THEN [emit |-> FALSE, packet |-> <<>>, buffer |-> buffer]
      ELSE [emit |-> TRUE,
            packet |-> Upto(buffer, i) \o end_byte,
            buffer |-> buffer]

\* Variant: the packet is left without its end marker.
SplitAtEndDropMarker(buffer, end_byte) ==
  LET i == Find(buffer, end_byte, 0)
  IN  IF i = -1 THEN [emit |-> FALSE, packet |-> <<>>, buffer |-> buffer]
      ELSE [emit |-> TRUE,
            packet |-> Upto(buffer, i),
            buffer |-> From(buffer, i + Len(end_byte))]

\* Lines 236-240: buffer.split(end_byte, 1), then packet += end_byte.
SplitAtEnd(buffer, end_byte) ==
  LET i == Find(buffer, end_byte, 0)
  IN  IF i = -1 THEN [emit |-> FALSE, packet |-> <<>>, buffer |-> buffer]
      ELSE [emit |-> TRUE,
            packet |-> Upto(buffer, i) \o end_byte,
            buffer |-> From(buffer, i + Len(end_byte))]


(***************************************************************************)
(* Files.  A file object is [lines, closed]; a line is [kind, msg] with    *)
(* kind "header", "packet" or "footer".  Writing to a closed file raises   *)
(* ValueError in Python; close() of a closed file does nothing.            *)
(***************************************************************************)
NoMsg == [ts |-> 0, label |-> "", hex |-> <<>>]

HeaderLine == [kind |-> "header", msg |-> NoMsg]

FooterLine == [kind |-> "footer", msg |-> NoMsg]

PacketLine(m) == [kind |-> "packet", msg |-> m]

NewFile == [lines |-> <<HeaderLine>>, closed |-> FALSE]

\* files with line ln written to file number f.
WriteLine(files, f, ln) ==
  [files EXCEPT ![f] = [@ EXCEPT !.lines = Append(@, ln)]]

CloseFile(files, f) == [files EXCEPT ![f] = [@ EXCEPT !.closed = TRUE]]

\* The packet messages written to a file, in order.
PacketsOf(file) ==
  LET idx == {i \in 1..Len(file.lines) : file.lines[i].kind = "packet"}
      RECURSIVE Pick(_)
      Pick(i) == IF i > Len(file.lines) THEN <<>>
                 ELSE IF i \in idx THEN <<file.lines[i].msg>> \o Pick(i + 1)
                 ELSE Pick(i + 1)
  IN  Pick(1)

(***************************************************************************)
(* Signals.  An event is [label, kind, msg, text]: data_received carries   *)
(* the message, status_changed and error_occurred a text.                  *)
(***************************************************************************)
DataEvent(label, m) ==
  [label |-> label, kind |-> "data", msg |-> m, text |-> ""]

StatusEvent(label, text) ==
  [label |-> label, kind |-> "status", msg |-> NoMsg, text |-> text]

ErrorEvent(label, text) ==
  [label |-> label, kind |-> "error", msg |-> NoMsg, text |-> text]

Labels == {"RX1", "RX2"}


(***************************************************************************)
(* The coordinator (ComSniffer).  Its fields form the record co; the       *)
(* handlers below are functions from the record before the call to the     *)
(* record after it.  The thresholds are the program's, scaled: a rendered  *)
(* one-byte packet line is 22 bytes long.                                  *)
(***************************************************************************)
\* max_pending_display (20000, line 345), scaled.
max_pending_display == 4
\* The high-water mark of on_data_received (1000, line 815), scaled.
high_water_mark == 3
\* max_pending_log_bytes (5 * 1024 * 1024, line 346), scaled.
max_pending_log_bytes == 70
\* fsync_interval (8 * 1024, line 339), scaled.
fsync_interval == 30
\* max_log_size of ComSniffer (20 * 1024 * 1024, line 340), scaled.
max_log_size == 60
\* max_display_lines (5000, line 344), scaled.
max_display_lines == 6

\* Variant: the byte counter is not restarted.
OpenNewLogFileKeepCounter(c) ==
  LET closed == IF c.log_file # 0
                THEN CloseFile(WriteLine(c.files, c.log_file, FooterLine),
                               c.log_file)
                ELSE c.files
  IN  [c EXCEPT !.files = Append(closed, NewFile),
                !.log_file = Len(closed) + 1]

\* ComSniffer.open_new_log_file(log_dir)
OpenNewLogFile(c) ==
  LET closed == IF c.log_file # 0
                THEN CloseFile(WriteLine(c.files, c.log_file, FooterLine),
                               c.log_file)
                ELSE c.files
  IN  [c EXCEPT !.files = Append(closed, NewFile),
                !.log_file = Len(closed) + 1,
                !.log_file_size = 0]

RECURSIVE WriteAll(_, _, _)
WriteAll(files, f, msgs) ==
  IF msgs = <<>> THEN files
  ELSE WriteAll(WriteLine(files, f, PacketLine(Head(msgs))), f, Tail(msgs))

\* ComSniffer.flush_pending()
FlushPending(c) ==
  LET c1 == IF c.pending_display # <<>>
            THEN [c EXCEPT
                    !.display_text =
                       Last(@ \o c.pending_display, max_display_lines),
                    !.pending_display = <<>>]
            ELSE c
  IN  IF c1.log_file # 0 /\ c1.pending_log # <<>>
      THEN LET c2 == [c1 EXCEPT
                        !.files = WriteAll(@, c1.log_file, c1.pending_log),
                        !.pending_log = <<>>,
                        !.log_file_size = @ + c1.pending_log_bytes,
                        !.pending_log_bytes = 0]
               c3 == IF c2.log_file_size - c2.last_fsync_size
                        >= fsync_interval
                     THEN [c2 EXCEPT !.last_fsync_size = c2.log_file_size]
                     ELSE c2
           IN  IF c3.log_file_size >= max_log_size
               THEN OpenNewLogFile(c3) ELSE c3
      ELSE c1

\* Variant: the new line is put at the oldest end.
EnqueueAtFront(pending_display, data) ==
  Last(<<data>> \o pending_display, max_pending_display)

\* Lines 805-808: append, then popleft() while the queue is too long.
EnqueueDisplay(pending_display, data) ==
  Last(Append(pending_display, data), max_pending_display)

\* Variant: on overflow the queue is cleared and the counter is not.
EnqueueLogStaleCounter(c, data) ==
  IF c.log_file # 0
  THEN LET bytes == c.pending_log_bytes + MsgLen(data)
       IN  IF bytes > max_pending_log_bytes
           THEN [c EXCEPT !.pending_log = <<>>,
                          !.pending_log_bytes = bytes]
           ELSE [c EXCEPT !.pending_log = Append(@, data),
                          !.pending_log_bytes = bytes]
  ELSE c

\* Variant: on overflow the batch is dropped but the new line is kept.
EnqueueLogKeepNewest(c, data) ==
  IF c.log_file # 0
  THEN LET bytes == c.pending_log_bytes + MsgLen(data)
       IN  IF bytes > max_pending_log_bytes
           THEN [c EXCEPT !.pending_log = <<data>>,
                          !.pending_log_bytes = MsgLen(data)]
           ELSE [c EXCEPT !.pending_log = Append(@, data),
                          !.pending_log_bytes = bytes]
  ELSE c

\* Lines 809-814: the line joins the log queue while a log file is open;
\* beyond max_pending_log_bytes the queue is cleared.
EnqueueLog(c, data) ==
  IF c.log_file # 0
  THEN LET bytes == c.pending_log_bytes + MsgLen(data)
       IN  IF bytes > max_pending_log_bytes
           THEN [c EXCEPT !.pending_log = <<>>,
                          !.pending_log_bytes = 0]
           ELSE [c EXCEPT !.pending_log = Append(@, data),
                          !.pending_log_bytes = bytes]
  ELSE c

\* ComSniffer.on_data_received(label, data); accepted records the call,
\* with whether stop_monitoring() was already under way and whether a log
\* file was open.
OnDataReceived(c, label, data) ==
  LET c1 == [c EXCEPT !.pending_display = EnqueueDisplay(@, data),
                      !.accepted =
                        Append(@, [msg |-> data, stopping |-> c.is_stopping,
                                   logging |-> c.log_file # 0,
                                   session |-> c.session])]
      c2 == EnqueueLog(c1, data)
  IN  IF Len(c2.pending_display) >= high_water_mark
      THEN FlushPending(c2) ELSE c2


(***************************************************************************)
(* State.                                                                  *)
(*   rt[l]    the SerialReaderThread object with source_label l: its       *)
(*            fields, the position (pc) and locals of run() in the         *)
(*            reader's thread, the position (stop_pc) and locals of a      *)
(*            call of stop() in the caller's thread, and what the current  *)
(*            ingest started from (buf0) and has emitted (out), the chunks *)
(*            read so far (received, kept while emissions are recorded or  *)
(*            delivered) and the buffer contents stop() rendered           *)
(*            (residual).                                                  *)
(*   co       the ComSniffer object.                                       *)
(*            Besides the fields: the position (pc) of the coordinator's   *)
(*            thread, the index (stopping) of the reader stop_monitoring() *)
(*            is at, the modal error boxes that are open (boxes), the last *)
(*            warning shown, the number of the monitoring session and the  *)
(*            calls of on_data_received so far (accepted).                 *)
(*   evq      the events posted to the coordinator's thread and not yet    *)
(*            delivered (a signal emitted in another thread than the       *)
(*            receiver's is queued; one emitted in the receiver's thread   *)
(*            calls the slot directly).                                    *)
(*   emitted  every signal emission in the order it happened, kept when a  *)
(*            recording slot is connected.                                 *)
(*   slots    what is connected to the readers' signals: "none",           *)
(*            "recorder" or "ComSniffer".                                  *)
(*   wire     per label, the chunks one read of its transport may return.  *)
(***************************************************************************)
VARIABLES rt, co, evq, emitted, slots, wire

vars == <<rt, co, evq, emitted, slots, wire>>

\* max_log_size of SerialReaderThread (20 * 1024 * 1024, line 151), scaled.
rd_max_log_size == 40
\* Reads of the transport per reader while emissions are recorded or
\* delivered (the histories grow with every read).
MaxReads == 2

\* SerialReaderThread.__init__, followed by QThread.start()
NewReader(label, buffer_enabled, end_marker, start_marker, log_dir) ==
  [source_label |-> label, buffer_enabled |-> buffer_enabled,
   end_marker |-> end_marker, start_marker |-> start_marker,
   log_dir |-> log_dir,
   serial_conn |-> "None", is_running |-> TRUE,
   log_file |-> 0, log_file_size |-> 0, files |-> <<>>,
   buffer |-> <<>>, last_timestamp |-> 0,
   pc |-> "open", data |-> <<>>, timestamp |-> 0,
   start_byte |-> <<>>, end_byte |-> <<>>, packet |-> <<>>,
   message |-> NoMsg, branch |-> "",
   stop_pc |-> "none", hex_data |-> <<>>, stop_message |-> NoMsg,
   buf0 |-> <<>>, out |-> <<>>, received |-> <<>>, residual |-> <<>>]

\* No thread object for the label.
NoReader(label) ==
  [NewReader(label, FALSE, <<>>, <<>>, FALSE) EXCEPT !.pc = "absent"]

Set(l, r) == rt' = [rt EXCEPT ![l] = r]

\* A signal emitted by run(), in the reader's thread.
EmitFromReader(ev) ==
  /\ emitted' = IF slots # "none" THEN Append(emitted, ev) ELSE emitted
  /\ evq' = IF slots = "ComSniffer" THEN Append(evq, ev) ELSE evq
  /\ UNCHANGED <<co, slots, wire>>

\* data_received emitted by stop(), in the coordinator's thread: the slot
\* on_data_received runs inside the emit.
EmitFromCaller(ev) ==
  /\ emitted' = IF slots # "none" THEN Append(emitted, ev) ELSE emitted
  /\ co' = IF slots = "ComSniffer" THEN OnDataReceived(co, ev.label, ev.msg)
           ELSE co
  /\ UNCHANGED <<evq, slots, wire>>

Times == 1..MaxTime

(***************************************************************************)
(* run(), in the reader's thread.                                          *)
(***************************************************************************)
\* Lines 179-186: serial.Serial(...) succeeds or raises SerialException.
Open(l) ==
  /\ rt[l].pc = "open"
  /\ \/ Set(l, [rt[l] EXCEPT !.serial_conn = "open", !.pc = "connected"])
     \/ Set(l, [rt[l] EXCEPT !.pc = "except_serial"])
  /\ UNCHANGED <<co, evq, emitted, slots, wire>>

\* Line 187.
EmitConnected(l) ==
  /\ rt[l].pc = "connected"
  /\ Set(l, [rt[l] EXCEPT !.pc = "open_log"])
  /\ EmitFromReader(StatusEvent(l, "connected"))

\* SerialReaderThread.open_new_log_file(): [r, ok]; not ok when the footer
\* is written to a file that is already closed.
RdOpenNewLogFile(r) ==
  IF ~r.log_dir THEN [r |-> r, ok |-> TRUE]
  ELSE IF r.log_file # 0 /\ r.files[r.log_file].closed
       THEN [r |-> r, ok |-> FALSE]
  ELSE LET old == IF r.log_file # 0
                  THEN CloseFile(WriteLine(r.files, r.log_file, FooterLine),
                                 r.log_file)
                  ELSE r.files
       IN  [r |-> [r EXCEPT !.files = Append(old, NewFile),
                            !.log_file = Len(old) + 1,
                            !.log_file_size = 0],
            ok |-> TRUE]

\* Lines 190-191.
OpenLog(l) ==
  /\ rt[l].pc = "open_log"
  /\ Set(l, [RdOpenNewLogFile(rt[l]).r EXCEPT !.pc = "while"])
  /\ UNCHANGED <<co, evq, emitted, slots, wire>>

\* Line 193: while self.is_running.
While(l) ==
  /\ rt[l].pc = "while"
  /\ Set(l, [rt[l] EXCEPT !.pc = IF rt[l].is_running THEN "poll"
                                 ELSE "finally"])
  /\ UNCHANGED <<co, evq, emitted, slots, wire>>

\* Line 194 with nothing waiting.
PollIdle(l) ==
  /\ rt[l].pc = "poll"
  /\ Set(l, [rt[l] EXCEPT !.pc = "while"])
  /\ UNCHANGED <<co, evq, emitted, slots, wire>>

\* Lines 194-195 raising SerialException (the device is gone).
PollError(l) ==
  /\ rt[l].pc = "poll"
  /\ Set(l, [rt[l] EXCEPT !.pc = "except_serial"])
  /\ UNCHANGED <<co, evq, emitted, slots, wire>>

\* The reads of all readers so far.
Reads == Len(rt["RX1"].received) + Len(rt["RX2"].received)

\* Variant of Read without the assignment of line 198.
ReadStampNotStored(l) ==
  /\ rt[l].pc = "poll"
  /\ slots # "none" => Reads < MaxReads
  /\ \E data \in wire[l], timestamp \in Times :
       /\ timestamp >= rt[l].last_timestamp
       /\ LET framed == rt[l].buffer_enabled /\ rt[l].end_marker # <<>>
          IN  Set(l, [rt[l] EXCEPT
                        !.data = data, !.timestamp = timestamp,
                        !.buf0 = rt[l].buffer, !.out = <<>>,
                        !.message = NoMsg,
                        !.received = IF slots = "none" THEN @
                                     ELSE Append(@, data),
                        !.pc = IF framed THEN "append" ELSE "emit",
                        !.branch = IF framed THEN "" ELSE "pass",
                        !.packet = IF framed THEN <<>> ELSE data])
  /\ UNCHANGED <<co, evq, emitted, slots, wire>>

\* Variant of Read whose mode test of line 199 ignores the end marker.
ReadFramedWhenEnabled(l) ==
  /\ rt[l].pc = "poll"
  /\ slots # "none" => Reads < MaxReads
  /\ \E data \in wire[l], timestamp \in Times :
       /\ timestamp >= rt[l].last_timestamp
       /\ LET framed == rt[l].buffer_enabled
          IN  Set(l, [rt[l] EXCEPT
                        !.data = data, !.timestamp = timestamp,
                        !.last_timestamp = timestamp,
                        !.buf0 = rt[l].buffer, !.out = <<>>,
                        !.message = NoMsg,
                        !.received = IF slots = "none" THEN @
                                     ELSE Append(@, data),
                        !.pc = IF framed THEN "append" ELSE "emit",
                        !.branch = IF framed THEN "" ELSE "pass",
                        !.packet = IF framed THEN <<>> ELSE data])
  /\ UNCHANGED <<co, evq, emitted, slots, wire>>

\* Lines 194-199: a chunk is read and stamped; the clock does not go back.
Read(l) ==
  /\ rt[l].pc = "poll"
  /\ slots # "none" => Reads < MaxReads
  /\ \E data \in wire[l], timestamp \in Times :
       /\ timestamp >= rt[l].last_timestamp
       /\ LET framed == rt[l].buffer_enabled /\ rt[l].end_marker # <<>>
          IN  Set(l, [rt[l] EXCEPT
                        !.data = data, !.timestamp = timestamp,
                        !.last_timestamp = timestamp,
                        !.buf0 = rt[l].buffer, !.out = <<>>,
                        !.message = NoMsg,
                        !.received = IF slots = "none" THEN @
                                     ELSE Append(@, data),
                        !.pc = IF framed THEN "append" ELSE "emit",
                        !.branch = IF framed THEN "" ELSE "pass",
                        !.packet = IF framed THEN <<>> ELSE data])
  /\ UNCHANGED <<co, evq, emitted, slots, wire>>

\* Line 201.
AppendData(l) ==
  /\ rt[l].pc = "append"
  /\ Set(l, [rt[l] EXCEPT !.buffer = @ \o rt[l].data, !.pc = "cap"])
  /\ UNCHANGED <<co, evq, emitted, slots, wire>>

\* Lines 202-209: the cap, then the markers are resolved.
Cap(l) ==
  /\ rt[l].pc = "cap"
  /\ LET start_byte == ParseMarker(rt[l].start_marker)
         end_byte   == ParseMarker(rt[l].end_marker)
         raised     == start_byte = ValueError \/ end_byte = ValueError
     IN  Set(l, [rt[l] EXCEPT
                   !.buffer = CapBuffer(@),
                   !.start_byte = IF raised THEN <<>> ELSE start_byte,
                   !.end_byte = IF raised THEN <<>> ELSE end_byte,
                   !.branch = IF raised THEN ""
                              ELSE IF start_byte # <<>> THEN "se" ELSE "eo",
                   !.pc = IF raised THEN "except_exception"
                          ELSE IF start_byte # <<>> THEN "se_start"
                          ELSE "eo_split"])
  /\ UNCHANGED <<co, evq, emitted, slots, wire>>

\* Lines 212-217.
SeStart(l) ==
  /\ rt[l].pc = "se_start"
  /\ LET s == SeekStart(rt[l].buffer, rt[l].start_byte)
     IN  Set(l, [rt[l] EXCEPT !.buffer = s.buffer,
                              !.pc = IF s.found THEN "se_end" ELSE "while"])
  /\ UNCHANGED <<co, evq, emitted, slots, wire>>

\* Lines 218-223.
SeEnd(l) ==
  /\ rt[l].pc = "se_end"
  /\ LET s == SplitFrame(rt[l].buffer, rt[l].start_byte, rt[l].end_byte)
     IN  Set(l, [rt[l] EXCEPT !.buffer = s.buffer, !.packet = s.packet,
                              !.pc = IF s.emit THEN "emit" ELSE "while"])
  /\ UNCHANGED <<co, evq, emitted, slots, wire>>

\* Lines 238-240.
EoSplit(l) ==
  /\ rt[l].pc = "eo_split"
  /\ LET s == SplitAtEnd(rt[l].buffer, rt[l].end_byte)
     IN  Set(l, [rt[l] EXCEPT !.buffer = s.buffer, !.packet = s.packet,
                              !.pc = IF s.emit THEN "emit" ELSE "while"])
  /\ UNCHANGED <<co, evq, emitted, slots, wire>>

\* The timestamp a packet's message carries: self.last_timestamp in the
\* framing branches (lines 227, 244), the local timestamp in pass-through
\* (line 257).
StampOf(r) == IF r.branch = "pass" THEN r.timestamp ELSE r.last_timestamp

\* Lines 225-228, 242-245, 255-258: the packet is rendered and emitted.
EmitPacket(l) ==
  /\ rt[l].pc = "emit"
  /\ LET hex_data == HexData(rt[l].packet)
         message  == Message(StampOf(rt[l]), l,
                             FormatPacketDisplay(hex_data, rt[l].packet))
     IN  /\ Set(l, [rt[l] EXCEPT
                      !.message = message,
                      !.out = Append(@, [packet |-> rt[l].packet,
                                         message |-> message]),
                      !.pc = "log"])
         /\ EmitFromReader(DataEvent(l, message))

\* Variant: an ingest leaves its framing loop after its first packet.
AfterPacketOnce(r) == "while"

\* Where run() continues after a packet.
AfterPacket(r) == CASE r.branch = "se" -> "se_start"
                    [] r.branch = "eo" -> "eo_split"
                    [] OTHER -> "while"

\* Lines 230-233, 247-250, 260-263: the packet is appended to the log file.
LogPacket(l) ==
  /\ rt[l].pc = "log"
  /\ LET r == rt[l]
     IN  IF r.log_file = 0 THEN Set(l, [r EXCEPT !.pc = AfterPacket(r)])
         ELSE IF r.files[r.log_file].closed
              THEN Set(l, [r EXCEPT !.pc = "except_exception"])
         ELSE Set(l, [r EXCEPT
                        !.files = WriteLine(@, r.log_file,
                                            PacketLine(r.message)),
                        !.log_file_size = @ + MsgLen(r.message),
                        !.pc = IF r.log_file_size + MsgLen(r.message)
                                  >= rd_max_log_size
                               THEN "rotate" ELSE AfterPacket(r)])
  /\ UNCHANGED <<co, evq, emitted, slots, wire>>

\* Lines 234-235, 251-252, 264-265: rotate_log_file().
Rotate(l) ==
  /\ rt[l].pc = "rotate"
  /\ LET o == RdOpenNewLogFile(rt[l])
     IN  Set(l, [o.r EXCEPT !.pc = IF o.ok THEN AfterPacket(rt[l])
                                   ELSE "except_exception"])
  /\ UNCHANGED <<co, evq, emitted, slots, wire>>

\* Variant: after the error the transport is opened again.
ExceptSerialRetry(l) ==
  /\ rt[l].pc = "except_serial"
  /\ Set(l, [rt[l] EXCEPT !.pc = "open"])
  /\ EmitFromReader(ErrorEvent(l, "open_error"))

\* Lines 267-268.
ExceptSerial(l) ==
  /\ rt[l].pc = "except_serial"
  /\ Set(l, [rt[l] EXCEPT !.pc = "finally"])
  /\ EmitFromReader(ErrorEvent(l, "open_error"))

\* Lines 269-270.
ExceptException(l) ==
  /\ rt[l].pc = "except_exception"
  /\ Set(l, [rt[l] EXCEPT !.pc = "finally"])
  /\ EmitFromReader(ErrorEvent(l, "unexpected"))

\* Lines 272-273: the footer; the write raises ValueError when the file is
\* closed, and the exception leaves run().
Finally(l) ==
  /\ rt[l].pc = "finally"
  /\ LET r == rt[l]
     IN  IF r.log_file = 0 THEN Set(l, [r EXCEPT !.pc = "close_conn"])
         ELSE IF r.files[r.log_file].closed
              THEN Set(l, [r EXCEPT !.pc = "crashed"])
         ELSE Set(l, [r EXCEPT
                        !.files = WriteLine(@, r.log_file, FooterLine),
                        !.pc = "close_log"])
  /\ UNCHANGED <<co, evq, emitted, slots, wire>>

\* Line 274.
CloseLog(l) ==
  /\ rt[l].pc = "close_log"
  /\ Set(l, [rt[l] EXCEPT !.files = CloseFile(@, rt[l].log_file),
                          !.pc = "close_conn"])
  /\ UNCHANGED <<co, evq, emitted, slots, wire>>

\* Lines 275-276.
CloseConn(l) ==
  /\ rt[l].pc = "close_conn"
  /\ Set(l, [rt[l] EXCEPT
               !.serial_conn = IF @ = "open" THEN "closed" ELSE @,
               !.pc = "disconnected"])
  /\ UNCHANGED <<co, evq, emitted, slots, wire>>

\* Line 277.
EmitDisconnected(l) ==
  /\ rt[l].pc = "disconnected"
  /\ Set(l, [rt[l] EXCEPT !.pc = "done"])
  /\ EmitFromReader(StatusEvent(l, "disconnected"))

\* One step of run() of a reader that has no log_dir (no log file is ever
\* open, so the steps that need one cannot be taken).
RunNoLog(l) ==
  \/ Open(l) \/ EmitConnected(l) \/ OpenLog(l)
  \/ While(l) \/ PollIdle(l) \/ PollError(l) \/ Read(l)
  \/ AppendData(l) \/ Cap(l)
  \/ SeStart(l) \/ SeEnd(l) \/ EoSplit(l)
  \/ EmitPacket(l) \/ LogPacket(l)
  \/ ExceptSerial(l) \/ ExceptException(l)
  \/ Finally(l) \/ CloseConn(l) \/ EmitDisconnected(l)

\* One step of run().
Run(l) == RunNoLog(l) \/ Rotate(l) \/ CloseLog(l)

\* run() has returned, or was left by an exception.
Finished(r) == r.pc \in {"done", "crashed"}


(***************************************************************************)
(* stop(), in the caller's thread (the coordinator's).  It runs while      *)
(* run() runs in the reader's thread.                                      *)
(***************************************************************************)
\* Lines 309-314: the flag; cancel_read() changes nothing that is modelled.
StopFlag(l) ==
  /\ rt[l].stop_pc = "s_flag"
  /\ Set(l, [rt[l] EXCEPT !.is_running = FALSE, !.stop_pc = "s_test"])
  /\ UNCHANGED <<co, evq, emitted, slots, wire>>

\* Line 316: if self.buffer_enabled and self.buffer.
StopTest(l) ==
  /\ rt[l].stop_pc = "s_test"
  /\ Set(l, [rt[l] EXCEPT
               !.stop_pc = IF rt[l].buffer_enabled /\ rt[l].buffer # <<>>
                           THEN "s_hex" ELSE "s_close"])
  /\ UNCHANGED <<co, evq, emitted, slots, wire>>

\* Line 317: the buffer is read again and rendered.
StopHex(l) ==
  /\ rt[l].stop_pc = "s_hex"
  /\ Set(l, [rt[l] EXCEPT !.hex_data = HexData(rt[l].buffer),
                          !.residual = Append(@, rt[l].buffer),
                          !.stop_pc = "s_emit"])
  /\ UNCHANGED <<co, evq, emitted, slots, wire>>

\* Lines 318-319.
StopEmit(l) ==
  /\ rt[l].stop_pc = "s_emit"
  /\ LET message == Message(rt[l].last_timestamp, l, rt[l].hex_data)
     IN  /\ Set(l, [rt[l] EXCEPT !.stop_message = message,
                                 !.stop_pc = "s_log"])
         /\ EmitFromCaller(DataEvent(l, message))

\* Lines 320-322: the write raises ValueError when the file is closed, and
\* the exception leaves stop().
StopLog(l) ==
  /\ rt[l].stop_pc = "s_log"
  /\ LET r == rt[l]
     IN  IF r.log_file = 0 THEN Set(l, [r EXCEPT !.stop_pc = "s_close"])
         ELSE IF r.files[r.log_file].closed
              THEN Set(l, [r EXCEPT !.stop_pc = "s_raised"])
         ELSE Set(l, [r EXCEPT
                        !.files = WriteLine(@, r.log_file,
                                            PacketLine(r.stop_message)),
                        !.stop_pc = "s_close"])
  /\ UNCHANGED <<co, evq, emitted, slots, wire>>

\* Lines 323-324.
StopClose(l) ==
  /\ rt[l].stop_pc = "s_close"
  /\ Set(l, [rt[l] EXCEPT
               !.files = IF rt[l].log_file # 0
                         THEN CloseFile(@, rt[l].log_file) ELSE @,
               !.stop_pc = "s_done"])
  /\ UNCHANGED <<co, evq, emitted, slots, wire>>

\* One step of stop().
Stop(l) ==
  \/ StopFlag(l) \/ StopTest(l) \/ StopHex(l) \/ StopEmit(l)
  \/ StopLog(l) \/ StopClose(l)

\* stop() has returned, or was left by an exception.
Stopped(r) == r.stop_pc \in {"s_done", "s_raised"}

(***************************************************************************)
(* The coordinator's state after ComSniffer.__init__ (lines 328-350) with  *)
(* the settings the user interface holds: per label the enable checkbox,   *)
(* the port, the buffering checkbox and the two marker texts; and the      *)
(* logging checkbox.                                                       *)
(***************************************************************************)
PortConfig(enabled, port, buffer, start_marker, end_marker) ==
  [enabled |-> enabled, port |-> port, buffer |-> buffer,
   start_marker |-> start_marker, end_marker |-> end_marker]

NewComSniffer(port_configs, log_checkbox) ==
  [reader_threads |-> <<>>, is_stopping |-> FALSE,
   log_file |-> 0, files |-> <<>>,
   log_file_size |-> 0, last_fsync_size |-> 0,
   pending_display |-> <<>>, pending_log |-> <<>>, pending_log_bytes |-> 0,
   display_text |-> <<>>,
   status_labels |-> [l \in Labels |-> ""], start_btn |-> TRUE,
   port_configs |-> port_configs, log_checkbox |-> log_checkbox,
   pc |-> "idle", stopping |-> 0, boxes |-> 0, warning |-> "",
   session |-> 0, accepted |-> <<>>]

\* The coordinator where no ComSniffer object takes part.
NoComSniffer ==
  NewComSniffer([l \in Labels |-> PortConfig(FALSE, "", FALSE, <<>>, <<>>)],
                FALSE)

(***************************************************************************)
(* SpecFraming: one reader's run() alone, over every marker configuration  *)
(* of FramingConfigs, each with its own chunks; nothing is                 *)
(* connected to its signals and stop() is not called.                      *)
(***************************************************************************)
\* The chunks of up to MaxChunkLen bytes over an alphabet.
Chunks(alphabet) == SeqsUpTo(alphabet, MaxChunkLen)

FramingConfig(buffer_enabled, start_marker, end_marker, chunks) ==
  [buffer_enabled |-> buffer_enabled, start_marker |-> start_marker,
   end_marker |-> end_marker, chunks |-> chunks]

FramingConfigs ==
  { FramingConfig(TRUE, T_empty, T_ETX,
                  Chunks({3, 65}) \cup {<<170, 187, 3>>, <<204, 3>>}),
    FramingConfig(TRUE, T_0x02, T_0x03,
                  Chunks({2, 3, 65})
                  \cup {<<255, 2, 17, 34, 3, 153>>,
                        <<2, 65, 66, 3, 2, 67, 3>>}),
    FramingConfig(TRUE, T_STX, T_etx, Chunks({2, 3})),
    FramingConfig(TRUE, T_empty, <<65, 65>>, Chunks({2, 65})),
    FramingConfig(TRUE, <<65, 65>>, T_ETX, Chunks({3, 65})),
    FramingConfig(TRUE, T_ETX, T_ETX, Chunks({3, 65})),
    FramingConfig(TRUE, T_STX, T_empty, Chunks({2, 3})),
    FramingConfig(TRUE, T_empty, T_300, Chunks({3})),
    FramingConfig(FALSE, T_empty, T_empty, Chunks({2, 3})) }

InitFraming ==
  /\ slots = "none"
  /\ \E c \in FramingConfigs :
       /\ rt = [l \in Labels |->
                 IF l = "RX1"
                 THEN NewReader(l, c.buffer_enabled, c.end_marker,
                                c.start_marker, FALSE)
                 ELSE NoReader(l)]
       /\ wire = [l \in Labels |-> IF l = "RX1" THEN c.chunks ELSE {}]
  /\ co = NoComSniffer
  /\ evq = <<>>
  /\ emitted = <<>>

NextFraming == RunNoLog("RX1")

SpecFraming == InitFraming /\ [][NextFraming]_vars


(***************************************************************************)
(* Framing claims (SpecFraming).  An ingest is the part of one loop        *)
(* iteration of run() that follows a read: it starts from the buffer buf0  *)
(* with the chunk data and has ended when run() is back at the loop test.  *)
(***************************************************************************)
\* The reader has ingested a chunk and is back at the loop test.
IngestDone(r) == r.pc \in {"while", "poll"} /\ r.timestamp # 0

EndOnlyMode(r) ==
  r.buffer_enabled /\ r.start_marker = <<>> /\ r.end_marker # <<>>

StartEndMode(r) ==
  r.buffer_enabled /\ r.start_marker # <<>> /\ r.end_marker # <<>>

\* The byte strings of the packets an ingest emitted, in order.
PacketsOut(r) == [i \in 1..Len(r.out) |-> r.out[i].packet]

\* The buffer the marker search of an ingest starts from.
Searched(r) == Last(r.buf0 \o r.data, max_buffer_size)

\* p ends with marker m and m occurs nowhere else in p from offset from on.
EndsAtFirst(p, m, from) ==
  /\ Len(p) >= from + Len(m)
  /\ Find(p, m, from) = Len(p) - Len(m)

\* C1: in end-marker-only mode an ingest splits the buffer after each
\* occurrence of the end marker: the packets emitted, in order, followed by
\* the buffer that remains are exactly the bytes searched, every packet ends
\* with the end marker and holds no other occurrence of it, and the
\* remainder holds none; AA BB 03 and then CC 03 give the packets AA BB 03
\* and CC 03.
C1_EndOnlySplitsAtEveryMarker ==
  LET r == rt["RX1"]
      pk == PacketsOut(r)
  IN  (EndOnlyMode(r) /\ IngestDone(r)) =>
        /\ Concat(pk) \o r.buffer = Searched(r)
        /\ \A i \in 1..Len(pk) : EndsAtFirst(pk[i], r.end_byte, 0)
        /\ ~Contains(r.buffer, r.end_byte)
        /\ (r.end_byte = <<3>> /\ r.buf0 = <<>> /\ r.data = <<170, 187, 3>>)
             => (pk = << <<170, 187, 3>> >> /\ r.buffer = <<>>)
        /\ (r.end_byte = <<3>> /\ r.buf0 = <<>> /\ r.data = <<204, 3>>)
             => (pk = << <<204, 3>> >> /\ r.buffer = <<>>)

\* Two packets came out of one chunk that completed a buffered packet.
C1_Witness ==
  LET r == rt["RX1"]
  IN  /\ EndOnlyMode(r) /\ IngestDone(r)
      /\ Len(r.out) = 2 /\ r.buf0 # <<>>

\* The frames of a start/end search of input: each packet starts at the
\* first start marker of what is left, ends with the first end marker found
\* after the start marker's bytes, and the buffer left is what follows the
\* last frame from its first start marker on (nothing without one), holding
\* no end marker after that start marker.
RECURSIVE FramesOf(_, _, _, _, _)
FramesOf(input, pk, buffer, start_byte, end_byte) ==
  LET i == Find(input, start_byte, 0)
  IN  IF pk = <<>>
      THEN IF i = -1 THEN buffer = <<>>
           ELSE /\ buffer = From(input, i)
                /\ Find(buffer, end_byte, Len(start_byte)) = -1
      ELSE /\ i # -1
           /\ IsPrefix(Head(pk), From(input, i))
           /\ EndsAtFirst(Head(pk), end_byte, Len(start_byte))
           /\ FramesOf(From(input, i + Len(Head(pk))), Tail(pk), buffer,
                       start_byte, end_byte)

\* C2: in start/end mode an ingest emits, in stream order, exactly the
\* frames from the first start marker through the first end marker after
\* the start marker's bytes, drops what precedes a start marker, emits
\* nothing while the end marker is absent, and emits every complete frame
\* of the chunk in the same call; 02 41 42 03 02 43 03 gives 02 41 42 03
\* and 02 43 03 and leaves the buffer empty.
C2_StartEndEmitsEveryFrame ==
  LET r == rt["RX1"]
      pk == PacketsOut(r)
  IN  (StartEndMode(r) /\ IngestDone(r)) =>
        /\ FramesOf(Searched(r), pk, r.buffer, r.start_byte, r.end_byte)
        /\ (r.start_marker = T_0x02 /\ r.end_marker = T_0x03 /\ r.buf0 = <<>>
            /\ r.data = <<2, 65, 66, 3, 2, 67, 3>>)
             => /\ Len(r.out) = 2
                /\ r.out[1].message.hex = <<"02", "41", "42", "03">>
                /\ r.out[2].message.hex = <<"02", "43", "03">>
                /\ r.buffer = <<>>

\* The single chunk 02 41 42 03 02 43 03 has been ingested.
C2_Witness ==
  LET r == rt["RX1"]
  IN  /\ StartEndMode(r) /\ IngestDone(r)
      /\ r.buf0 = <<>> /\ r.data = <<2, 65, 66, 3, 2, 67, 3>>
      /\ Len(r.out) = 2

\* The case of C3: start 02, end 03, the chunk FF 02 11 22 03 99 ingested
\* into an empty buffer.
C3_Case(r) ==
  /\ StartEndMode(r) /\ IngestDone(r)
  /\ r.start_byte = <<2>> /\ r.end_byte = <<3>>
  /\ r.buf0 = <<>> /\ r.data = <<255, 2, 17, 34, 3, 153>>

\* C3 as claimed: exactly the packet 02 11 22 03 is emitted and the
\* trailing byte 99 is still in the buffer after the call.
C3_TrailingByteRetained ==
  LET r == rt["RX1"]
  IN  C3_Case(r) => /\ PacketsOut(r) = << <<2, 17, 34, 3>> >>
                    /\ r.buffer = <<153>>

\* C3 as amended: exactly the packet 02 11 22 03 is emitted, the leading FF
\* is discarded, and so is the trailing 99: the loop searches what follows
\* the frame for a start marker in the same call, finds none and empties
\* the buffer.
C3_TrailingByteDiscarded ==
  LET r == rt["RX1"]
  IN  C3_Case(r) => /\ PacketsOut(r) = << <<2, 17, 34, 3>> >>
                    /\ r.out[1].message.hex = <<"02", "11", "22", "03">>
                    /\ r.buffer = <<>>

C3_Witness == C3_Case(rt["RX1"]) /\ Len(rt["RX1"].out) = 1


(***************************************************************************)
(* SpecReader: one SerialReaderThread, constructed with or without a       *)
(* log_dir, whose signals are recorded; its run() executes in its own      *)
(* thread and another thread calls stop() once, at any moment (also after  *)
(* run() has ended, as the coordinator does on an error).                  *)
(***************************************************************************)
ReaderConfigs ==
  { FramingConfig(TRUE, T_empty, T_ETX,
                  {<<>>, <<65>>, <<3>>, <<65, 3, 66>>,
                   <<65, 66, 67, 68, 69>>}),
    FramingConfig(TRUE, T_STX, T_ETX,
                  {<<2>>, <<65, 3>>, <<2, 65, 3, 2>>, <<2, 65, 66, 67, 68>>}),
    FramingConfig(TRUE, T_STX, T_empty, {<<2>>, <<65, 3>>}),
    FramingConfig(TRUE, T_AB, T_ETX, {<<65>>, <<66, 3>>, <<65, 66>>, <<3>>}),
    FramingConfig(FALSE, T_empty, T_empty, {<<>>, <<65>>, <<65, 3>>}) }

InitReader ==
  /\ slots = "recorder"
  /\ \E c \in ReaderConfigs, log_dir \in BOOLEAN :
       /\ rt = [l \in Labels |->
                 IF l = "RX1"
                 THEN NewReader(l, c.buffer_enabled, c.end_marker,
                                c.start_marker, log_dir)
                 ELSE NoReader(l)]
       /\ wire = [l \in Labels |-> IF l = "RX1" THEN c.chunks ELSE {}]
  /\ co = NoComSniffer
  /\ evq = <<>>
  /\ emitted = <<>>

\* The caller enters stop().
CallStop(l) ==
  /\ rt[l].pc # "absent"
  /\ rt[l].stop_pc = "none"
  /\ Set(l, [rt[l] EXCEPT !.stop_pc = "s_flag"])
  /\ UNCHANGED <<co, evq, emitted, slots, wire>>

NextReader == Run("RX1") \/ CallStop("RX1") \/ Stop("RX1")

SpecReader == InitReader /\ [][NextReader]_vars


(***************************************************************************)
(* Reader claims (SpecReader).                                             *)
(***************************************************************************)
\* The byte a rendered item stands for.
ByteOfHex(h) == CHOOSE b \in 0..255 : Hex2(b) = h

\* The bytes of the packet a message renders.
Payload(m) == [i \in 1..Len(m.hex) |-> ByteOfHex(m.hex[i])]

\* The positions of emitted that hold an event of kind k and label l.
EventsOf(l, k) ==
  {i \in 1..Len(emitted) : emitted[i].label = l /\ emitted[i].kind = k}

\* The payloads of the data events of label l, in emission order.
RECURSIVE PayloadsFrom(_, _)
PayloadsFrom(l, i) ==
  IF i > Len(emitted) THEN <<>>
  ELSE IF emitted[i].label = l /\ emitted[i].kind = "data"
       THEN <<Payload(emitted[i].msg)>> \o PayloadsFrom(l, i + 1)
       ELSE PayloadsFrom(l, i + 1)

Disconnected(l) ==
  {i \in EventsOf(l, "status") : emitted[i].text = "disconnected"}

\* C4: with buffering enabled the buffer never exceeds the cap once the cap
\* step of an ingest is over, the first marker search of an ingest sees
\* exactly the newest max_buffer_size bytes of what was buffered and read
\* (the truncation precedes the search and drops the oldest bytes), and
\* the buffer is always a suffix of the whole byte stream received so far.
C4_BufferIsCappedSuffixOfStream ==
  LET r == rt["RX1"]
  IN  r.buffer_enabled =>
        /\ r.pc # "cap" => Len(r.buffer) <= max_buffer_size
        /\ (r.pc \in {"se_start", "eo_split"} /\ r.out = <<>>)
             => r.buffer = Last(r.buf0 \o r.data, max_buffer_size)
        /\ r.pc # "append" => IsSuffix(r.buffer, Concat(r.received))

\* An ingest has exceeded the cap and is over.
C4_Witness ==
  LET r == rt["RX1"]
  IN  /\ r.buffer_enabled /\ IngestDone(r)
      /\ Len(r.buf0 \o r.data) > max_buffer_size
      /\ Len(r.buffer) > 0

\* stop() and run() have both ended.
AllOver(r) == Stopped(r) /\ Finished(r)

\* C5 as claimed: stop() emits at most one final packet, one exactly when
\* it found a non-empty buffer with buffering enabled, holding the bytes of
\* the buffer; and once stop() and run() are over an open per-port log file
\* has been closed with a footer as its last line, the final packet's line
\* before it.
C5_StopFlushesAndClosesWithFooter ==
  LET r == rt["RX1"]
  IN  /\ Len(r.residual) <= 1
      /\ (r.stop_pc \in {"s_log", "s_close", "s_done"} /\ r.residual # <<>>)
           => Payload(r.stop_message) = r.residual[1]
      /\ (AllOver(r) /\ r.log_file # 0) =>
           LET f == r.files[r.log_file]
               n == Len(f.lines)
           IN  /\ f.closed
               /\ f.lines[n] = FooterLine
               /\ r.residual # <<>>
                    => f.lines[n - 1] = PacketLine(r.stop_message)

\* C6 as claimed: no write is attempted on a per-port log file that is
\* closed, and in end-marker-only mode, when stop() and run() are over and
\* neither the cap nor an error interfered, the packets emitted (framed
\* packets, then the residual packet) hold every byte read exactly once.
WriteOnClosedFile(r) ==
  \/ r.stop_pc = "s_raised"
  \/ r.pc = "crashed"
  \/ \E i \in EventsOf(r.source_label, "error") :
       emitted[i].text = "unexpected"

C6_EveryByteInExactlyOnePacket ==
  LET r == rt["RX1"]
  IN  /\ ~WriteOnClosedFile(r)
      /\ (EndOnlyMode(r) /\ AllOver(r) /\ r.pc = "done"
          /\ EventsOf("RX1", "error") = {}
          /\ Len(Concat(r.received)) <= max_buffer_size)
           => Concat(PayloadsFrom("RX1", 1)) = Concat(r.received)

\* C7 as claimed, for a run() that has ended after a stop request: the
\* transport is closed and the disconnected status was emitted.
C7_StoppedReaderReachesClosed ==
  LET r == rt["RX1"]
  IN  (r.stop_pc # "none" /\ Finished(r)) =>
        /\ r.pc = "done"
        /\ r.serial_conn # "open"
        /\ Disconnected("RX1") # {}

\* C8 as claimed: no event of a label follows its disconnected status.
C8_DisconnectedIsFinalEvent ==
  \A i \in Disconnected("RX1") :
    \A j \in 1..Len(emitted) : emitted[j].label = "RX1" => j <= i


(***************************************************************************)
(* The coordinator's thread.  It runs the event loop (pc "idle"), which    *)
(* delivers the queued events, fires the flush timer and takes the user's  *)
(* clicks; start_monitoring() and stop_monitoring() run in it, and while   *)
(* stop_monitoring() runs nothing is delivered.  A modal error box runs a  *)
(* nested event loop: deliveries and the timer go on, clicks do not.       *)
(***************************************************************************)
\* Sessions one run of the application starts.
MaxSessions == 1

NoPortsFound == "none_found"

LabelOrder == <<"RX1", "RX2">>

\* Variant of StartWarning without the duplicate-port test of lines 708-713.
StartWarningAllowDuplicates(c) ==
  LET cfg == c.port_configs
  IN  IF \A l \in Labels : ~cfg[l].enabled THEN "no_active_ports"
      ELSE IF \E l \in Labels : cfg[l].port = NoPortsFound THEN "no_ports"
      ELSE ""

\* Lines 694-713: the warning start_monitoring() returns with, "" if none.
StartWarning(c) ==
  LET cfg == c.port_configs
  IN  IF \A l \in Labels : ~cfg[l].enabled THEN "no_active_ports"
      ELSE IF \E l \in Labels : cfg[l].port = NoPortsFound THEN "no_ports"
      ELSE IF cfg["RX1"].enabled /\ cfg["RX2"].enabled
              /\ cfg["RX1"].port = cfg["RX2"].port THEN "duplicate_ports"
      ELSE ""

\* Lines 738-765: the labels of the readers created, in order.
ActiveLabels(c) ==
  SelectSeq(LabelOrder, LAMBDA l : c.port_configs[l].enabled)

\* Lines 753-760: the reader of an enabled label; its log_dir is None.
ReaderFor(c, l) ==
  LET cfg == c.port_configs[l]
  IN  NewReader(l, cfg.buffer,
                IF cfg.buffer THEN cfg.end_marker ELSE T_empty,
                IF cfg.buffer THEN cfg.start_marker ELSE T_empty,
                FALSE)

\* start_monitoring(), from a click on the start button.
StartMonitoring ==
  /\ co.pc = "idle" /\ co.boxes = 0 /\ co.start_btn
  /\ co.session < MaxSessions
  /\ IF StartWarning(co) # ""
     THEN /\ co' = [co EXCEPT !.warning = StartWarning(co)]
          /\ UNCHANGED rt
     ELSE /\ co' = [(IF co.log_checkbox THEN OpenNewLogFile(co) ELSE co)
                      EXCEPT !.start_btn = FALSE,
                             !.reader_threads = ActiveLabels(co),
                             !.session = @ + 1]
          /\ rt' = [l \in Labels |->
                     IF co.port_configs[l].enabled THEN ReaderFor(co, l)
                     ELSE rt[l]]
  /\ UNCHANGED <<evq, emitted, slots, wire>>

\* Lines 769-772 of stop_monitoring(): the guard, the flag, flush_pending().
EnterStopMonitoring(c) ==
  IF c.is_stopping THEN c
  ELSE [FlushPending([c EXCEPT !.is_stopping = TRUE]) EXCEPT
          !.stopping = 1,
          !.pc = IF c.reader_threads = <<>> THEN "finish" ELSE "call_stop"]

\* stop_monitoring(), from a click on the stop button.
StopMonitoring ==
  /\ co.pc = "idle" /\ co.boxes = 0 /\ ~co.start_btn
  /\ co' = EnterStopMonitoring(co)
  /\ UNCHANGED <<rt, evq, emitted, slots, wire>>

\* Line 859: the error box of on_error is dismissed and stop_monitoring()
\* is called.
DismissError ==
  /\ co.pc = "idle" /\ co.boxes > 0
  /\ co' = EnterStopMonitoring([co EXCEPT !.boxes = @ - 1])
  /\ UNCHANGED <<rt, evq, emitted, slots, wire>>

\* Line 774: reader_thread.stop() is entered; its steps are Stop(l).
StopReader ==
  /\ co.pc = "call_stop"
  /\ LET l == co.reader_threads[co.stopping]
     IN  Set(l, [rt[l] EXCEPT !.stop_pc = "s_flag"])
  /\ co' = [co EXCEPT !.pc = "wait"]
  /\ UNCHANGED <<evq, emitted, slots, wire>>

\* Line 775: stop() has returned and reader_thread.wait() returns, run()
\* having ended.
WaitReader ==
  /\ co.pc = "wait"
  /\ LET l == co.reader_threads[co.stopping]
     IN  rt[l].stop_pc = "s_done" /\ Finished(rt[l])
  /\ co' = [co EXCEPT !.stopping = @ + 1,
                      !.pc = IF co.stopping = Len(co.reader_threads)
                             THEN "finish" ELSE "call_stop"]
  /\ UNCHANGED <<rt, evq, emitted, slots, wire>>

\* Lines 776-801.
FinishStopMonitoring ==
  /\ co.pc = "finish"
  /\ co' = [co EXCEPT
              !.reader_threads = <<>>,
              !.files = IF co.log_file # 0
                        THEN CloseFile(WriteLine(@, co.log_file, FooterLine),
                                       co.log_file)
                        ELSE @,
              !.log_file = 0,
              !.start_btn = TRUE,
              !.is_stopping = FALSE,
              !.stopping = 0,
              !.pc = "idle"]
  /\ UNCHANGED <<rt, evq, emitted, slots, wire>>

\* The event loop delivers a queued data_received to on_data_received.
DeliverData ==
  /\ co.pc = "idle" /\ evq # <<>> /\ Head(evq).kind = "data"
  /\ co' = OnDataReceived(co, Head(evq).label, Head(evq).msg)
  /\ evq' = Tail(evq)
  /\ UNCHANGED <<rt, emitted, slots, wire>>

\* on_status_changed(label, status)
OnStatusChanged(c, label, status) ==
  [c EXCEPT !.status_labels[label] = status]

DeliverStatus ==
  /\ co.pc = "idle" /\ evq # <<>> /\ Head(evq).kind = "status"
  /\ co' = OnStatusChanged(co, Head(evq).label, Head(evq).text)
  /\ evq' = Tail(evq)
  /\ UNCHANGED <<rt, emitted, slots, wire>>

\* on_error(label, error_msg), up to the error box it opens.
OnError(c, label, error_msg) ==
  IF ~c.is_stopping THEN [c EXCEPT !.boxes = @ + 1] ELSE c

DeliverError ==
  /\ co.pc = "idle" /\ evq # <<>> /\ Head(evq).kind = "error"
  /\ co' = OnError(co, Head(evq).label, Head(evq).text)
  /\ evq' = Tail(evq)
  /\ UNCHANGED <<rt, emitted, slots, wire>>

\* The flush timer (init_flush_timer) fires.
TimerFlush ==
  /\ co.pc = "idle"
  /\ co' = FlushPending(co)
  /\ UNCHANGED <<rt, evq, emitted, slots, wire>>

(***************************************************************************)
(* Spec: the application.  The user interface holds one of UiConfigs when  *)
(* the start button is clicked.                                            *)
(***************************************************************************)
UiConfig(rx1, rx2, log_checkbox, chunks1, chunks2) ==
  [port_configs |-> [l \in Labels |-> IF l = "RX1" THEN rx1 ELSE rx2],
   log_checkbox |-> log_checkbox,
   wire |-> [l \in Labels |-> IF l = "RX1" THEN chunks1 ELSE chunks2]]

Off(port) == PortConfig(FALSE, port, FALSE, T_empty, T_empty)

UiConfigs ==
  { UiConfig(PortConfig(TRUE, "COM1", TRUE, T_empty, T_ETX), Off("COM2"),
             TRUE, {<<65>>, <<65, 3, 66, 3>>}, {}),
    UiConfig(PortConfig(TRUE, "COM1", TRUE, T_STX, T_ETX),
             PortConfig(TRUE, "COM2", FALSE, T_empty, T_ETX),
             TRUE, {<<2, 65>>}, {<<66>>}),
    UiConfig(PortConfig(TRUE, "COM1", TRUE, T_empty, T_300), Off("COM1"),
             FALSE, {<<65>>}, {}),
    UiConfig(Off("COM1"), Off("COM2"), TRUE, {}, {}),
    UiConfig(PortConfig(TRUE, NoPortsFound, FALSE, T_empty, T_empty),
             Off(NoPortsFound), FALSE, {}, {}),
    UiConfig(PortConfig(TRUE, "COM1", FALSE, T_empty, T_empty),
             PortConfig(TRUE, "COM1", FALSE, T_empty, T_empty),
             TRUE, {}, {}) }

Init ==
  /\ slots = "ComSniffer"
  /\ \E u \in UiConfigs :
       /\ co = NewComSniffer(u.port_configs, u.log_checkbox)
       /\ wire = u.wire
  /\ rt = [l \in Labels |-> NoReader(l)]
  /\ evq = <<>>
  /\ emitted = <<>>

Next ==
  \/ \E l \in Labels : RunNoLog(l) \/ Stop(l)
  \/ StartMonitoring \/ StopMonitoring \/ DismissError
  \/ StopReader \/ WaitReader \/ FinishStopMonitoring
  \/ DeliverData \/ DeliverStatus \/ DeliverError \/ TimerFlush

Spec == Init /\ [][Next]_vars


(***************************************************************************)
(* Application claims (Spec).                                              *)
(***************************************************************************)
\* The readers stop_monitoring() has to stop.
ReadersOf(c) == {c.reader_threads[i] : i \in 1..Len(c.reader_threads)}

\* A session has ended and the event loop has delivered every event.
SessionOver ==
  /\ co.session > 0 /\ co.start_btn /\ co.pc = "idle" /\ co.boxes = 0
  /\ evq = <<>>

\* C9 as claimed: the final flush of stop_monitoring() (after which
\* is_stopping is set until the log is closed) happens only when run() of
\* every reader has ended; no packet reaches on_data_received after the
\* final flush or after the log is closed; and when the session is over
\* no packet accepted in a logging session was accepted without an open
\* log or is still waiting for the write.
C9_FinalizeAfterReadersClosed ==
  /\ co.is_stopping => \A l \in ReadersOf(co) : Finished(rt[l])
  /\ \A i \in 1..Len(co.accepted) : ~co.accepted[i].stopping
  /\ (SessionOver /\ co.log_checkbox) =>
       /\ co.pending_log = <<>>
       /\ \A i \in 1..Len(co.accepted) : co.accepted[i].logging

\* The messages of the data events of label l, in emission order.
RECURSIVE MessagesFrom(_, _)
MessagesFrom(l, i) ==
  IF i > Len(emitted) THEN <<>>
  ELSE IF emitted[i].label = l /\ emitted[i].kind = "data"
       THEN <<emitted[i].msg>> \o MessagesFrom(l, i + 1)
       ELSE MessagesFrom(l, i + 1)

\* The packet messages in the log files of a reader, oldest file first.
RECURSIVE LoggedFrom(_, _)
LoggedFrom(r, f) ==
  IF f > Len(r.files) THEN <<>>
  ELSE PacketsOf(r.files[f]) \o LoggedFrom(r, f + 1)

\* The messages on_data_received was called with for label l, in order.
AcceptedOf(l) ==
  LET mine == SelectSeq(co.accepted, LAMBDA a : a.msg.label = l)
  IN  [i \in 1..Len(mine) |-> mine[i].msg]

\* a and b hold the same elements the same number of times.
SameBag(a, b) ==
  LET Count(q, x) == Cardinality({i \in 1..Len(q) : q[i] = x})
  IN  /\ Len(a) = Len(b)
      /\ \A i \in 1..Len(a) : Count(a, a[i]) = Count(b, a[i])

\* C10 as claimed: in a session started with the logging checkbox set,
\* once it is over, the packets each reader emitted are, once each and in
\* emission order, the packet lines of that reader's own log files, and
\* the packets the coordinator was handed for that label.
C10_EveryPacketInPortLogAndDelivered ==
  (SessionOver /\ co.log_checkbox) =>
    \A l \in Labels :
      rt[l].pc # "absent" =>
        /\ LoggedFrom(rt[l], 1) = MessagesFrom(l, 1)
        /\ SameBag(AcceptedOf(l), MessagesFrom(l, 1))

\* C11 as claimed: for each port the packets are handed to
\* on_data_received, which appends them to both pending queues, in the
\* order they were emitted (run() emits its packets in the order of their
\* bytes, and the residual packet of stop() comes after them): what was
\* handed over so far is a prefix of what was emitted.
C11_EnqueuedInEmissionOrder ==
  \A l \in Labels : IsPrefix(AcceptedOf(l), MessagesFrom(l, 1))


(***************************************************************************)
(* SpecSinks: the two log sinks and the pending queues, each driven on its *)
(* own.  A SerialReaderThread constructed with a log_dir runs run() (its   *)
(* signals are recorded), and the slots of a ComSniffer that has started   *)
(* monitoring, with or without logging, are called with any of            *)
(* FeedMessages, as the readers' signals call them, while its flush timer  *)
(* fires; a behaviour has one of the two objects.                          *)
(***************************************************************************)
\* Calls of on_data_received in one behaviour.
MaxFeeds == 5

\* The messages on_data_received is called with: rendered lines of 22 and
\* of 25 bytes.
FeedMessages ==
  { Message(1, "RX1", HexData(<<65>>)), Message(2, "RX2", HexData(<<65, 3>>)) }

SinkReaderConfigs ==
  { FramingConfig(TRUE, T_empty, T_ETX, {<<65, 3>>, <<65, 3, 66, 3>>}),
    FramingConfig(TRUE, T_STX, T_ETX, {<<2, 65, 3>>}),
    FramingConfig(TRUE, T_empty, T_300, {<<3>>}) }

\* The coordinator after a start_monitoring() that created its readers.
Monitoring(log_checkbox) ==
  LET c == NewComSniffer(
             [l \in Labels |->
                PortConfig(TRUE, IF l = "RX1" THEN "COM1" ELSE "COM2",
                           FALSE, T_empty, T_empty)],
             log_checkbox)
  IN  [(IF log_checkbox THEN OpenNewLogFile(c) ELSE c)
         EXCEPT !.start_btn = FALSE, !.session = 1]

\* Either the reader alone or the coordinator alone.
InitSinks ==
  /\ slots = "recorder"
  /\ \/ \E c \in SinkReaderConfigs :
          /\ rt = [l \in Labels |->
                    IF l = "RX1"
                    THEN NewReader(l, c.buffer_enabled, c.end_marker,
                                   c.start_marker, TRUE)
                    ELSE NoReader(l)]
          /\ wire = [l \in Labels |-> IF l = "RX1" THEN c.chunks ELSE {}]
          /\ co = NoComSniffer
     \/ \E log_checkbox \in BOOLEAN :
          /\ rt = [l \in Labels |-> NoReader(l)]
          /\ wire = [l \in Labels |-> {}]
          /\ co = Monitoring(log_checkbox)
  /\ evq = <<>>
  /\ emitted = <<>>

\* data_received of some reader calls on_data_received; the signal is
\* connected while monitoring.
Feed ==
  /\ co.pc = "idle" /\ ~co.start_btn
  /\ Len(co.accepted) < MaxFeeds
  /\ \E m \in FeedMessages : co' = OnDataReceived(co, m.label, m)
  /\ UNCHANGED <<rt, evq, emitted, slots, wire>>

NextSinks == Run("RX1") \/ Feed \/ TimerFlush

SpecSinks == InitSinks /\ [][NextSinks]_vars


(***************************************************************************)
(* Sink and queue claims (SpecSinks).                                      *)
(***************************************************************************)
\* The bytes of the packet lines of a file.
RECURSIVE SumLen(_)
SumLen(msgs) == IF msgs = <<>> THEN 0 ELSE MsgLen(Head(msgs)) + SumLen(Tail(msgs))

LineBytes(file) == SumLen(PacketsOf(file))

\* A file that was rotated away: header first, footer last, closed.
Sealed(file) ==
  /\ file.closed
  /\ Head(file.lines) = HeaderLine
  /\ file.lines[Len(file.lines)] = FooterLine
  /\ \A i \in 2..(Len(file.lines) - 1) : file.lines[i].kind = "packet"

\* The files of a sink whose current file is number cur, with byte counter
\* size and rotation threshold limit, at a moment when no write operation
\* is under way: the counter is the packet-line bytes of the current file
\* and is below the threshold; every earlier file reached the threshold
\* and was sealed before its successor, which starts with its header, was
\* opened; no file is empty because of a second rotation.
SinkRotatedExactly(files, cur, size, limit) ==
  /\ cur = Len(files)
  /\ size = LineBytes(files[cur])
  /\ size < limit
  /\ Head(files[cur].lines) = HeaderLine
  /\ \A f \in 1..(cur - 1) :
       /\ Sealed(files[f])
       /\ LineBytes(files[f]) >= limit

Enqueued == Len(co'.accepted) = Len(co.accepted) + 1

Newest == co'.accepted[Len(co'.accepted)].msg

AggregateLines(c) == LoggedFrom(c, 1)

\* The new line is in the display queue or, drained, on the display.
NewestShown ==
  \/ /\ co'.pending_display # <<>>
     /\ co'.pending_display[Len(co'.pending_display)] = Newest
  \/ /\ co'.pending_display = <<>>
     /\ co'.display_text # <<>>
     /\ co'.display_text[Len(co'.display_text)] = Newest

\* C14: in every enqueue, pending_log_bytes ends at most
\* max_pending_log_bytes; with no aggregate log file open the log queue
\* and its counter are left alone; with one open, a line that takes the
\* counter beyond the limit empties the whole queue, the line included,
\* and resets the counter to 0, and otherwise the line is appended and
\* counted (or, at the high-water mark, written to the log with the rest
\* of the queue); in every case the line enters the display queue.
C14_LogQueueBoundedByBytes ==
  [][Enqueued =>
       LET bytes == co.pending_log_bytes + MsgLen(Newest)
           batch == Append(co.pending_log, Newest)
       IN  /\ co'.pending_log_bytes <= max_pending_log_bytes
           /\ NewestShown
           /\ co.log_file = 0 =>
                /\ co'.pending_log = co.pending_log
                /\ co'.pending_log_bytes = co.pending_log_bytes
                /\ co'.files = co.files
           /\ (co.log_file # 0 /\ bytes > max_pending_log_bytes) =>
                /\ co'.pending_log = <<>>
                /\ co'.pending_log_bytes = 0
                /\ co'.files = co.files
           /\ (co.log_file # 0 /\ bytes <= max_pending_log_bytes) =>
                \/ /\ co'.pending_log = batch
                   /\ co'.pending_log_bytes = bytes
                   /\ co'.files = co.files
                \/ /\ co'.pending_log = <<>>
                   /\ co'.pending_log_bytes = 0
                   /\ AggregateLines(co') = AggregateLines(co) \o batch]_vars

\* Three lines were accepted with the log open and all were dropped.
C14_Witness ==
  /\ co.log_file # 0
  /\ Len(co.accepted) = 3
  /\ co.pending_log = <<>> /\ co.pending_log_bytes = 0
  /\ AggregateLines(co) = <<>>


(***************************************************************************)
(* Queue and error claims of the application (Spec).                       *)
(***************************************************************************)
\* C15 as claimed: on_data_received returns with fewer than
\* high_water_mark lines in the pending-display queue, and an enqueue that
\* brings the queue to the high-water mark leaves both pending queues
\* empty.
C15_HighWaterDrainsBothQueues ==
  [][Enqueued =>
       /\ Len(co'.pending_display) < high_water_mark
       /\ Len(co.pending_display) + 1 >= high_water_mark =>
            /\ co'.pending_display = <<>>
            /\ co'.pending_log = <<>>]_vars


(***************************************************************************)
(* Error claims of the reader (SpecReader).                                *)
(***************************************************************************)
\* run() is past the handler of an exception: in finally, or ended.
Terminating(r) ==
  r.pc \in {"finally", "close_log", "close_conn", "disconnected", "done",
            "crashed"}

\* serial.Serial(...) raised: run() has left line 179 without a transport.
OpenFailed(r) == r.pc \notin {"absent", "open"} /\ r.serial_conn = "None"

Connected(l) ==
  {i \in EventsOf(l, "status") : emitted[i].text = "connected"}

\* C16: run() emits at most one error event, under its own label; once it
\* has emitted one it only runs its cleanup and ends, so the transport is
\* not opened again (and connected is emitted at most once); when the
\* opening failed there is no connected status and no packet, and run()
\* ends having emitted exactly one error event.
C16_OneErrorNoRetry ==
  LET r == rt["RX1"]
      errors == EventsOf("RX1", "error")
  IN  /\ Cardinality(errors) <= 1
      /\ \A i \in 1..Len(emitted) : emitted[i].label = r.source_label
      /\ Cardinality(Connected("RX1")) <= 1
      /\ errors # {} => Terminating(r)
      /\ r.pc \in {"except_serial", "except_exception"} => errors = {}
      /\ OpenFailed(r) =>
           /\ Connected("RX1") = {}
           /\ EventsOf("RX1", "data") = {}
           /\ r.pc = "except_serial" \/ Terminating(r)
           /\ Finished(r) => Cardinality(errors) = 1

\* The opening failed and run() has ended.
C16_Witness ==
  LET r == rt["RX1"]
  IN  /\ OpenFailed(r) /\ r.pc = "done"
      /\ Cardinality(EventsOf("RX1", "error")) = 1


(***************************************************************************)
(* Error and configuration claims of the application (Spec).               *)
(***************************************************************************)
\* Steps of the coordinator: on_error is called; stop_monitoring() gets
\* past its guard; stop_monitoring() returns.
ErrorDelivered ==
  evq # <<>> /\ Head(evq).kind = "error" /\ evq' = Tail(evq)

StopBegins == ~co.is_stopping /\ co'.is_stopping

StopEnds == co.is_stopping /\ ~co'.is_stopping

\* Every reader of the session has been stopped and waited for.
AllStoppedAndWaited ==
  \A l \in ReadersOf(co) : rt[l].stop_pc = "s_done" /\ Finished(rt[l])

\* The halt of all ports by on_error: a delivered error opens the error
\* box whose dismissal calls stop_monitoring(); a stop_monitoring() that
\* has begun goes on to its end, and returns with every reader stopped and
\* waited for, the list of readers empty and the aggregate log closed.
ErrorHaltsAllPorts ==
  /\ ErrorDelivered => co'.boxes = co.boxes + 1
  /\ co.boxes > co'.boxes => co'.is_stopping
  /\ co'.is_stopping => co'.pc \in {"call_stop", "wait", "finish"}
  /\ StopEnds =>
       /\ AllStoppedAndWaited
       /\ co'.reader_threads = <<>>
       /\ co'.log_file = 0
       /\ \A f \in 1..Len(co'.files) : co'.files[f].closed

\* C17 as claimed: an error event halts monitoring for all ports, and an
\* error event that arrives while a stop is in progress starts no second
\* stop: stop_monitoring() gets past its guard only while monitoring runs.
C17_ErrorStopsAllOnce ==
  [][/\ ErrorHaltsAllPorts
     /\ StopBegins => ~co.start_btn]_vars

\* A step of start_monitoring(): it leaves a warning or starts a session.
StartClicked == co'.warning # co.warning \/ co'.session # co.session

\* The three configuration errors of the claim.
ConfigError(c) ==
  LET cfg == c.port_configs
  IN  \/ \A l \in Labels : ~cfg[l].enabled
      \/ \E l \in Labels : cfg[l].port = NoPortsFound
      \/ /\ cfg["RX1"].enabled /\ cfg["RX2"].enabled
         /\ cfg["RX1"].port = cfg["RX2"].port

\* Both channels on the same real port, exactly one of them enabled.
SamePortOneEnabled(c) ==
  LET cfg == c.port_configs
  IN  /\ cfg["RX1"].port = cfg["RX2"].port
      /\ cfg["RX1"].port # NoPortsFound
      /\ cfg["RX1"].enabled # cfg["RX2"].enabled

\* C18: start_monitoring() with a configuration error (no port enabled,
\* the placeholder selected, both enabled channels on one port) creates no
\* reader, opens no aggregate log and changes nothing of the coordinator
\* but the warning shown; with both channels on one port and only one of
\* them enabled it starts the session with that channel's reader.
C18_ConfigErrorStartsNothing ==
  [][StartClicked =>
       /\ ConfigError(co) =>
            /\ rt' = rt
            /\ co'.warning # ""
            /\ co' = [co EXCEPT !.warning = co'.warning]
            /\ co'.files = <<>> /\ co'.reader_threads = <<>>
       /\ SamePortOneEnabled(co) =>
            /\ co'.warning = "" /\ co'.session = co.session + 1
            /\ Len(co'.reader_threads) = 1 /\ ~co'.start_btn]_vars

C18_Witness == co.warning = "duplicate_ports" /\ co.log_checkbox

(***************************************************************************)
(* Pass-through claim of the reader (SpecReader).                          *)
(***************************************************************************)
PassThrough(r) == ~r.buffer_enabled \/ r.end_marker = <<>>

\* The chunks read whose packet has been emitted.
ChunksEmitted(r) ==
  IF r.pc = "emit" THEN SubSeq(r.received, 1, Len(r.received) - 1)
  ELSE r.received

\* C19: a reader with buffering disabled, or enabled with an empty end
\* marker text whatever the start marker, emits every chunk read as one
\* packet of exactly that chunk's bytes, in order, before it reads again;
\* it never resolves the markers, its frame buffer stays empty, and stop()
\* emits no residual packet.
C19_PassThroughEmitsEveryChunk ==
  \A l \in Labels :
    rt[l].pc # "absent" /\ PassThrough(rt[l]) =>
      /\ PayloadsFrom(l, 1) = ChunksEmitted(rt[l])
      /\ \A i \in 1..Len(rt[l].out) :
           /\ rt[l].out[i].packet = rt[l].data
           /\ rt[l].out[i].message.ts = rt[l].timestamp
      /\ Len(rt[l].out) <= 1
      /\ rt[l].start_byte = <<>> /\ rt[l].end_byte = <<>>
      /\ rt[l].buffer = <<>>
      /\ rt[l].residual = <<>>
      /\ rt[l].stop_pc \notin {"s_hex", "s_emit"}

\* Buffering enabled with a start marker and no end marker: two chunks have
\* been read and emitted, and stop() has returned.
C19_Witness ==
  /\ rt["RX1"].buffer_enabled /\ rt["RX1"].end_marker = <<>>
  /\ rt["RX1"].start_marker # <<>>
  /\ Len(rt["RX1"].received) = 2 /\ rt["RX1"].pc # "emit"
  /\ rt["RX1"].stop_pc = "s_done"

(***************************************************************************)
(* Marker resolver claim (SpecFraming).                                    *)
(***************************************************************************)
\* The mapping as claimed: keyword, hexadecimal text, decimal text, raw.
ClaimedMarker(t) ==
  IF t = <<>> THEN <<>>
  ELSE IF Upper(t) = T_STX THEN <<2>>
  ELSE IF Upper(t) = T_ETX THEN <<3>>
  ELSE IF IsPrefix(<<48, 120>>, Lower(t)) /\ IntHex(Upper(t)) >= 0
       THEN <<IntHex(Upper(t))>>
  ELSE IF IsDigit(t) THEN <<DigitsValue(t, 10)>>
  ELSE t

\* C20 as claimed: where run() resolves its two markers (lines 206-207),
\* each resolves to the byte sequence of the claimed mapping, a text of
\* decimal digits to the single byte of its value.
C20_ResolverMapping ==
  [][rt["RX1"].pc = "cap" =>
       /\ rt'["RX1"].pc # "except_exception"
       /\ rt'["RX1"].start_byte = ClaimedMarker(rt["RX1"].start_marker)
       /\ rt'["RX1"].end_byte = ClaimedMarker(rt["RX1"].end_marker)]_vars

\* C21 as claimed: the resolver returns a byte sequence for every marker
\* text of a reader, also for a literal whose value is above 255, so the
\* resolution of lines 206-207 never takes run() to its handler of
\* unexpected exceptions.
C21_ResolverIsTotal ==
  \A l \in Labels :
    /\ rt[l].pc = "cap" =>
         /\ ParseMarker(rt[l].start_marker) # ValueError
         /\ ParseMarker(rt[l].end_marker) # ValueError
    /\ rt[l].pc # "except_exception"

(***************************************************************************)
(* Algebraic claims of the frame extractor (SpecFraming).                  *)
(***************************************************************************)
Framed(r) == r.buffer_enabled /\ r.end_marker # <<>>

RECURSIVE FrameAll(_, _, _)
FrameAll(buffer, start_byte, end_byte) ==
  IF start_byte # <<>>
  THEN LET s == SeekStart(buffer, start_byte)
           f == SplitFrame(s.buffer, start_byte, end_byte)
           rest == FrameAll(f.buffer, start_byte, end_byte)
       IN  IF ~s.found THEN [packets |-> <<>>, buffer |-> s.buffer]
           ELSE IF ~f.emit THEN [packets |-> <<>>, buffer |-> s.buffer]
           ELSE [packets |-> <<f.packet>> \o rest.packets,
                 buffer |-> rest.buffer]
  ELSE LET e == SplitAtEnd(buffer, end_byte)
           rest == FrameAll(e.buffer, start_byte, end_byte)
       IN  IF ~e.emit THEN [packets |-> <<>>, buffer |-> buffer]
           ELSE [packets |-> <<e.packet>> \o rest.packets,
                 buffer |-> rest.buffer]

\* Lines 201-252: one ingest of data into buffer.
IngestChunk(buffer, data, start_byte, end_byte) ==
  FrameAll(CapBuffer(buffer \o data), start_byte, end_byte)

\* The chunks read so far are non-empty and fit the cap together.
WithinCap(r) ==
  /\ \A i \in 1..Len(r.received) : r.received[i] # <<>>
  /\ Len(Concat(r.received)) <= max_buffer_size

\* C23 as claimed: in end-marker-only and in start/end mode, for a stream
\* within the cap read in non-empty chunks, the packets emitted and the
\* buffer left are those of the whole stream ingested as a single chunk,
\* whatever the chunk boundaries are, also where they cut a marker of more
\* than one byte.
C23_ChunkingInvariant ==
  LET r == rt["RX1"]
      whole == IngestChunk(<<>>, Concat(r.received),
                           r.start_byte, r.end_byte)
  IN  (Framed(r) /\ IngestDone(r) /\ r.stop_pc = "none" /\ WithinCap(r)) =>
        /\ PayloadsFrom("RX1", 1) = whole.packets
        /\ r.buffer = whole.buffer

\* No ingest of chunks, in order, into buffer finds the buffer above the
\* cap at line 202 (end-marker-only mode).
RECURSIVE NeverCapped(_, _, _)
NeverCapped(buffer, chunks, end_byte) ==
  \/ chunks = <<>>
  \/ /\ Len(buffer \o Head(chunks)) <= max_buffer_size
     /\ NeverCapped(IngestChunk(buffer, Head(chunks), <<>>, end_byte).buffer,
                    Tail(chunks), end_byte)

\* The packet split off the buffer and not yet emitted.
PendingPacket(r) == IF r.pc = "emit" THEN r.packet ELSE <<>>

\* The chunks read that line 201 has appended to the buffer.
ChunksAppended(r) ==
  IF r.pc = "append" THEN SubSeq(r.received, 1, Len(r.received) - 1)
  ELSE r.received

\* C25: in end-marker-only mode, while stop() has not been called and no
\* ingest found the buffer above the cap, the packets emitted so far, in
\* order, followed by the frame buffer are exactly the bytes of the chunks
\* received so far: framing loses and duplicates no byte.
C25_EndOnlyConservesBytes ==
  LET r == rt["RX1"]
  IN  (/\ EndOnlyMode(r) /\ r.stop_pc = "none"
       /\ NeverCapped(<<>>, r.received, ParseMarker(r.end_marker))) =>
        Concat(PayloadsFrom("RX1", 1)) \o PendingPacket(r) \o r.buffer
          = Concat(ChunksAppended(r))

\* A stream longer than the cap whose first packet left the buffer in
\* time: a packet has been emitted and six bytes are buffered.
C25_Witness ==
  LET r == rt["RX1"]
  IN  /\ EndOnlyMode(r) /\ r.stop_pc = "none" /\ IngestDone(r)
      /\ NeverCapped(<<>>, r.received, ParseMarker(r.end_marker))
      /\ Len(Concat(r.received)) > max_buffer_size
      /\ PayloadsFrom("RX1", 1) # <<>> /\ r.buffer # <<>>

(***************************************************************************)
(* Invariants of the frame extractor (SpecFraming).                        *)
(***************************************************************************)
\* C24: after every ingest with buffering enabled the buffer is in
\* canonical form: in end-marker-only mode it holds no occurrence of the
\* end marker; in start/end mode it is empty, or begins with the start
\* marker and holds no end marker at or after the start marker's length.
C24_BufferIsCanonical ==
  LET r == rt["RX1"]
  IN  IngestDone(r) =>
        /\ EndOnlyMode(r) => ~Contains(r.buffer, r.end_byte)
        /\ StartEndMode(r) =>
             \/ r.buffer = <<>>
             \/ /\ IsPrefix(r.start_byte, r.buffer)
                /\ Find(r.buffer, r.end_byte, Len(r.start_byte)) = -1

\* Start/end mode: an ingest emitted a frame and left the start of the
\* next one in the buffer.
C24_Witness ==
  LET r == rt["RX1"]
  IN  /\ StartEndMode(r) /\ IngestDone(r)
      /\ Len(r.out) >= 1 /\ r.buffer # <<>>

\* run() is inside the framing loop of lines 211-252.
InLoop(r) ==
  /\ r.branch \in {"se", "eo"}
  /\ r.pc \in {"se_start", "se_end", "eo_split", "emit", "log"}

\* The step of an iteration that splits a packet off the buffer.
SplitsPacket(r, q) == r.pc \in {"se_end", "eo_split"} /\ q.pc = "emit"

\* C26: the framing loop of an ingest terminates: inside the loop the
\* resolved end marker is non-empty, no step of the loop makes the buffer
\* longer, every iteration that does not leave the loop takes at least one
\* byte off the buffer, and the packets emitted by an ingest are never
\* more than the bytes the loop started from.
C26_FramingLoopTerminates ==
  [][LET r == rt["RX1"]
         q == rt'["RX1"]
     IN  /\ InLoop(q) =>
              /\ q.end_byte # <<>>
              /\ Len(q.out) <= Len(Searched(q))
              /\ Len(q.out) + Len(q.buffer) + Len(PendingPacket(q))
                   <= Len(Searched(q))
         /\ InLoop(r) => Len(q.buffer) <= Len(r.buffer)
         /\ SplitsPacket(r, q) => Len(q.buffer) < Len(r.buffer)
         /\ (r.pc \in {"se_end", "eo_split"} /\ ~SplitsPacket(r, q)) =>
              ~InLoop(q)]_vars

\* The bound is met: an ingest that started its loop from two bytes has
\* emitted two packets.
C26_Witness ==
  LET r == rt["RX1"]
  IN  IngestDone(r) /\ Len(r.out) = 2 /\ Len(Searched(r)) = 2

(***************************************************************************)
(* Aggregate-log claims of the application (Spec).                         *)
(***************************************************************************)
\* C27: in every state of the application, through start, enqueue,
\* flush_pending, rotation and stop, pending_log_bytes is the sum of the
\* encoded lengths of the lines held in pending_log, and is 0 exactly
\* when pending_log is empty.
C27_PendingLogBytesIsSum ==
  /\ co.pending_log_bytes = SumLen(co.pending_log)
  /\ co.pending_log_bytes = 0 <=> co.pending_log = <<>>

\* The aggregate log has been rotated and a later line waits in the queue.
C27_Witness == Len(co.files) >= 2 /\ co.pending_log # <<>>

\* The lines on_data_received accepted during session n.
AcceptedIn(n) ==
  {co.accepted[i].msg :
     i \in {j \in 1..Len(co.accepted) : co.accepted[j].session = n}}

\* C28 as claimed: when stop_monitoring() returns the aggregate-log queue
\* is empty, and every packet line of the log file that is open was
\* received during the session that opened it.
C28_SessionsIsolatedInLog ==
  [][/\ StopEnds => co'.pending_log = <<>>
     /\ co'.log_file # 0 =>
          \A i \in 1..Len(PacketsOf(co'.files[co'.log_file])) :
            PacketsOf(co'.files[co'.log_file])[i] \in AcceptedIn(co'.session)
    ]_vars

\* C29 as claimed: for the aggregate log file that is open, also one
\* opened by a rotation or by a later start, last_fsync_size never exceeds
\* log_file_size, and the bytes written to the file since its last fsync
\* stay below fsync_interval once flush_pending() has returned.
C29_FsyncWithinInterval ==
  co.log_file # 0 =>
    /\ co.last_fsync_size <= co.log_file_size
    /\ co.log_file_size - co.last_fsync_size < fsync_interval

(***************************************************************************)
(* Timestamp claim of the reader (SpecReader).                             *)
(***************************************************************************)
\* C30: every packet an ingest emits carries the timestamp taken when the
\* chunk of that ingest was read, also when its first bytes came with an
\* earlier chunk; the residual packet stop() emits carries the timestamp
\* of the last chunk read, and no packet carries an unset timestamp.
C30_PacketsCarryChunkTimestamp ==
  [][LET r == rt["RX1"]
         q == rt'["RX1"]
     IN  /\ \A i \in 1..Len(q.out) :
              /\ q.out[i].message.ts = q.timestamp
              /\ q.out[i].message.ts \in Times
         /\ (r.stop_pc = "s_emit" /\ q.stop_pc = "s_log") =>
              /\ q.stop_message.ts = r.timestamp
              /\ q.stop_message.ts \in Times
              /\ emitted' = Append(emitted, DataEvent("RX1", q.stop_message))
    ]_vars

\* A packet went out with the first chunk's timestamp; stop() has emitted
\* a residual packet whose first byte came with that chunk, under the
\* later timestamp of the second chunk.
C30_Witness ==
  LET r == rt["RX1"]
  IN  /\ Len(r.received) = 2
      /\ \E i \in EventsOf("RX1", "data") : emitted[i].msg.ts = 1
      /\ r.stop_message.ts = 2 /\ Len(r.stop_message.hex) >= 2

=============================================================================
